---- MODULE Spec2Model ----
(***************************************************************************)
(* Model of src/src/js/video-generator.js: one render session of           *)
(* generateMarketingVideo (canvas + MediaRecorder slideshow), optionally   *)
(* entered through generateAndDownloadVideo.  A second invocation is kept  *)
(* beside it (peer); the two-session specification dispatches the events   *)
(* of both.  The pure functions of the file (photo selection, fit-to-box)   *)
(* have a specification each that draws their inputs and applies them.     *)
(*                                                                         *)
(* Every macrotask of the browser event loop that touches the session is   *)
(* one action: the call itself, an image load/error event, the resumption  *)
(* after `await Promise.all`, a render tick, the timeout callback, and the *)
(* MediaRecorder's dataavailable / stop / error events.  Wall-clock time   *)
(* is abstracted: a timer that is armed may fire at any later step, so     *)
(* every relative order of ticks, encoder events and the timeout occurs.   *)
(*                                                                         *)
(* MediaRecorder follows the W3C MediaStream Recording algorithm: stop()   *)
(* on an inactive recorder returns without effect; stop() on a recording   *)
(* one makes it inactive and queues a dataavailable and then a stop event; *)
(* an encoder failure fires error, then dataavailable, then stop.          *)
(* Arithmetic on frame counts is exact (scaled by 1000).  Where the IEEE    *)
(* double the code computes is off the exact value by a rounding error in a *)
(* place that changes a comparison or a floor, the error is kept as one     *)
(* unit of the scaled value (every exact quantity it is compared with is a  *)
(* multiple of ten units).                                                  *)
(***************************************************************************)
EXTENDS Integers, Sequences, FiniteSets, TLC

\* ---------------------------------------------------------------- bounds
MaxPhotos == 2

\* frame rates swept by the fault-free specification
MaxFps == 4

\* Render configurations explored (fps, photoDuration and transitionDuration
\* in ms); 1500 ms at 1 fps gives a fractional number of frames per photo.
Configs ==
  { [fps |-> 1, photoDuration |-> 1000, transitionDuration |-> 500],
    [fps |-> 2, photoDuration |-> 1000, transitionDuration |-> 0],
    [fps |-> 1, photoDuration |-> 1500, transitionDuration |-> 1000] }

\* the defaults of the options object, lines 20-22
DefaultFps == 30
DefaultPhotoDuration == 2000
DefaultTransitionDuration == 500
DefaultConfig ==
  [fps |-> DefaultFps, photoDuration |-> DefaultPhotoDuration,
   transitionDuration |-> DefaultTransitionDuration]

\* Two inputs whose frame arithmetic is not exact in IEEE doubles:
\* (1 * 2200 / 1000) * 25 is 55.00000000000001, and (201 / 50) * 1000 is
\* 4019.9999999999995.
RoundedInputs ==
  { [n |-> 1, cfg |-> [fps |-> 25, photoDuration |-> 2200, transitionDuration |-> 500]],
    [n |-> 2, cfg |-> [fps |-> 50, photoDuration |-> 4020, transitionDuration |-> 500]] }

\* Inputs of the fault-free specification: one photo and five photos with
\* the default options, the two inputs above, and one or two photos over a
\* sweep of frame rates, photo durations and fades (no fade, short fade,
\* fade longer than half a photo, fade longer than the photo).
NormalInputs ==
  { [n |-> k, cfg |-> DefaultConfig] : k \in {1, 5} } \cup RoundedInputs \cup
  { [n |-> k, cfg |-> [fps |-> f, photoDuration |-> d, transitionDuration |-> t]] :
      k \in 1..2, f \in 1..MaxFps, d \in {1000, 2000}, t \in {0, 500, 1500, 2500} }

Entries == {"direct", "wrapper"}

\* Result of one execution of the try block of renderFrame: it ran to the
\* end, or a call threw: before the photo (background, fit), ctx.drawImage
\* itself, the text overlay, or the onProgress callback.
FrameResults == {"ok", "drawThrew", "photoThrew", "overlayThrew", "progressThrew"}

\* longest photo list given to the photo selection
MaxAlbum == 2

\* largest width or height of an image or a box given to the fit
MaxDim == 3

\* jobInfo.job_number as the wrapper reads it: empty, or a job number
JobNumbers == {"", "J-1024"}

VARIABLES
  entry,        \* which exported function the caller invoked
  input,        \* the caller's photo list: TRUE = photo carries image data
  cfg,          \* options: fps, photoDuration
  hasProgress,  \* options.onProgress is a function
  pc,           \* position of the async function: idle, loading, running, thrown
  photos,       \* the list generateMarketingVideo received
  canvas,       \* document.createElement('canvas') has run
  recorder,     \* MediaRecorder.state, or "none" before construction
  encQueue,     \* encoder events queued by the user agent, in order
  chunks,       \* sizes of the chunks pushed by ondataavailable
  img,          \* per photo: loading, loaded, failed, released
  totalFrames,  \* totalFrames * 1000 (exact), fixed after the await
  timer,        \* the setTimeout of line 68: none, armed, fired, cleared
  isCompleted,  \* the completion guard
  frame,        \* the frame counter
  tickPending,  \* a setTimeout(renderFrame, interval) is outstanding
  drawn,        \* frames whose drawing completed, in order: frame, photo, alpha
  progress,     \* values passed to onProgress, in order
  threw,        \* frames whose try block threw
  outcome,      \* how the promise of generateMarketingVideo settled
  settles,      \* calls of resolve/reject of the session promise
  cleanups,     \* calls of cleanup()
  stopCalls,    \* calls of mediaRecorder.stop()
  downloads,    \* calls of downloadVideo
  images,       \* the array Promise.all fills: slot -> photo loaded, 0 = empty
  globalAlpha,  \* ctx.globalAlpha, as a fraction <<numerator, denominator>>
  emitted,      \* sizes of the chunks the encoder delivered, in order
  blob,         \* the chunk lists handed to `new Blob`, one per call
  jobNumber,    \* jobInfo.job_number as read at line 306, "unread" before
  filename,     \* the download attribute of the anchor, "none" before
  wrapped,      \* how the promise of generateAndDownloadVideo settled
  timeouts,     \* calls of setTimeout(renderFrame, interval)
  ticks,        \* runs of renderFrame started by such a timeout
  handlers,     \* the event handlers set on the recorder
  self,         \* which of the two invocations the variables above hold
  peer,         \* the variables of the other invocation
  album,        \* the photo array a caller holds: category, sequence, data
  selection,    \* the list the photo selection computed from it
  box,          \* an image size and a container size
  fit,          \* the rectangle calculateFitDimensions returned for them:
                \* each number as exact fraction q and rounding sign r
  applied       \* which pure function has been applied: none, select, fit

vars == <<entry, input, cfg, hasProgress, pc, photos, canvas, recorder,
          encQueue, chunks, img, totalFrames, timer, isCompleted, frame,
          tickPending, drawn, progress, threw, outcome, settles, cleanups,
          stopCalls, downloads, images, globalAlpha, emitted, blob,
          jobNumber, filename, wrapped, timeouts, ticks, handlers, self, peer,
          album, selection, box, fit, applied>>

\* ------------------------------------------------------------- helpers
RECURSIVE SeqsUpTo(_, _)
SeqsUpTo(S, n) ==
  IF n = 0 THEN { <<>> }
  ELSE LET shorter == SeqsUpTo(S, n - 1)
       IN  shorter \cup { Append(s, x) : s \in { t \in shorter : Len(t) = n - 1 }, x \in S }

\* sortedPhotos.filter(p => p.image_data || p.thumbnail_data)
HasData(p) == p
selectedPhotos(list) == SelectSeq(list, HasData)

\* const categoryOrder = [...]
categoryOrder == <<"before_car", "before_wheel", "during", "after_wheel", "after_car">>

\* a photo of the caller's array: its category, its sequence number and
\* which of image_data and thumbnail_data it carries
AlbumPhotos ==
  [category : {categoryOrder[i] : i \in DOMAIN categoryOrder},
   sequence : {1, 2},
   data : {"none", "image", "thumbnail"}]

\* Array.prototype.indexOf: zero-based position of the first occurrence,
\* -1 when there is none
IndexOf(list, v) ==
  IF \E i \in DOMAIN list : list[i] = v
  THEN (CHOOSE i \in DOMAIN list :
          list[i] = v /\ \A j \in DOMAIN list : list[j] = v => i <= j) - 1
  ELSE -1

\* variant: a comparator that looks at the category only
Compare_CategoryOnly(a, b) ==
  IndexOf(categoryOrder, a.category) - IndexOf(categoryOrder, b.category)

\* the comparator given to sort
Compare(a, b) ==
  LET categoryDiff == IndexOf(categoryOrder, a.category)
                        - IndexOf(categoryOrder, b.category)
  IN  IF categoryDiff # 0 THEN categoryDiff ELSE a.sequence - b.sequence

\* Array.prototype.sort is stable: p goes behind every element of the
\* sorted list that does not compare greater than it
InsertSorted(list, p) ==
  LET k == Cardinality({ i \in DOMAIN list : Compare(list[i], p) <= 0 })
  IN  SubSeq(list, 1, k) \o <<p>> \o SubSeq(list, k + 1, Len(list))

RECURSIVE SortedPhotos(_)
SortedPhotos(list) ==
  IF list = <<>> THEN <<>>
  ELSE InsertSorted(SortedPhotos(SubSeq(list, 1, Len(list) - 1)), list[Len(list)])

\* p.image_data || p.thumbnail_data
HasImageData(p) == p.data # "none"

\* sortedPhotos.filter(...) of the sorted copy
SelectedOf(list) == SelectSeq(SortedPhotos(list), HasImageData)

\* variant: photos.sort(...) on the caller's array itself
AlbumAfterSort_InPlace(list) == SortedPhotos(list)

\* [...photos].sort(...) sorts a copy: the caller's array afterwards
AlbumAfterSort(list) == list

\* an image as large as its box for which the doubles round upwards:
\* 25 * (7 / 25) is 7.000000000000001
RoundedBoxes ==
  { [imgWidth |-> 7, imgHeight |-> 25, containerWidth |-> 7, containerHeight |-> 25] }

\* img.width, img.height, containerWidth, containerHeight
FitInputs ==
  [imgWidth : 1..MaxDim, imgHeight : 1..MaxDim,
   containerWidth : 1..MaxDim, containerHeight : 1..MaxDim] \cup RoundedBoxes

\* variant: the comparison the other way round (cover instead of fit)
FitBranch_Cover(b) ==
  b.imgWidth * b.containerHeight < b.containerWidth * b.imgHeight

\* imgRatio > containerRatio, cross-multiplied; the two doubles compare
\* like the exact ratios for the inputs explored
FitBranch(b) ==
  b.imgWidth * b.containerHeight > b.containerWidth * b.imgHeight

\* Rounding of the side computed through imgRatio (containerWidth /
\* imgRatio or containerHeight * imgRatio) against its exact value, for the
\* inputs explored: thirds come out below the exact value, the other
\* fractions of sides up to 4 are exact, 25 * (7 / 25) comes out above.
SideRounding(b) ==
  LET num == IF FitBranch(b) THEN b.containerWidth * b.imgHeight
             ELSE b.containerHeight * b.imgWidth
      den == IF FitBranch(b) THEN b.imgWidth ELSE b.imgHeight
  IN  IF b \in RoundedBoxes THEN 1
      ELSE IF den = 3 /\ num % 3 # 0 THEN -1
      ELSE 0

\* Rounding of (container - side) / 2 for that side against the exact
\* value, for the inputs explored: above it where the side came out
\* below, except that 3 - 1/3 and 4 - 1/3 round downwards again; below
\* it (negative instead of zero) for 7 - 7.000000000000001.
OffsetRounding(b) ==
  IF b \in RoundedBoxes THEN -1
  ELSE IF SideRounding(b) = 0 THEN 0
  ELSE IF \/ /\ b.imgWidth = 1 /\ b.imgHeight = 3
             /\ b.containerHeight = 1 /\ b.containerWidth \in {3, 4}
          \/ /\ b.imgWidth = 3 /\ b.imgHeight = 1
             /\ b.containerWidth = 1 /\ b.containerHeight \in {3, 4}
       THEN -1
  ELSE 1

\* (container - side) / 2 as a fraction
HalfGap(c, v) == <<c * v[2] - v[1], 2 * v[2]>>

\* calculateFitDimensions(img, containerWidth, containerHeight): a number
\* of the result is the fraction q it has in exact arithmetic and the sign
\* r of what double rounding added to it
FitDimensions(b) ==
  LET wide == FitBranch(b)
      w == IF wide
           THEN [q |-> <<b.containerWidth, 1>>, r |-> 0]
           ELSE [q |-> <<b.containerHeight * b.imgWidth, b.imgHeight>>,
                 r |-> SideRounding(b)]
      h == IF wide
           THEN [q |-> <<b.containerWidth * b.imgHeight, b.imgWidth>>,
                 r |-> SideRounding(b)]
           ELSE [q |-> <<b.containerHeight, 1>>, r |-> 0]
  IN  [x |-> [q |-> HalfGap(b.containerWidth, w.q),
              r |-> IF wide THEN 0 ELSE OffsetRounding(b)],
       y |-> [q |-> HalfGap(b.containerHeight, h.q),
              r |-> IF wide THEN OffsetRounding(b) ELSE 0],
       w |-> w,
       h |-> h]

\* before calculateFitDimensions is applied: no sizes, no rectangle
NoBox == [imgWidth |-> 1, imgHeight |-> 1, containerWidth |-> 1, containerHeight |-> 1]
NoFit ==
  [x |-> [q |-> <<0, 1>>, r |-> 0], y |-> [q |-> <<0, 1>>, r |-> 0],
   w |-> [q |-> <<0, 1>>, r |-> 0], h |-> [q |-> <<0, 1>>, r |-> 0]]

\* Rounding of the double (n * photoDuration / 1000) * fps against the
\* exact product, for the inputs explored: 2.2 * 25 and 4.4 * 25 come out
\* one ulp above 55 and 110, 8.04 * 50 one ulp below 402; the other
\* products are exact.
TotalFramesError(n, c) ==
  IF c.fps = 25 /\ c.photoDuration = 2200 /\ n \in {1, 2} THEN 1
  ELSE IF c.fps = 50 /\ c.photoDuration = 4020 /\ n = 2 THEN -1
  ELSE 0

\* (images.length * photoDuration / 1000) * fps, kept as totalFrames * 1000
TotalFramesOf(n, c) == n * c.photoDuration * c.fps + TotalFramesError(n, c)

\* Rounding of the double (frame / fps) * 1000 against the exact quotient
\* at the frames where the exact value is a multiple of photoDuration, for
\* the inputs explored: (201 / 50) * 1000 comes out one ulp below 4020; at
\* the other photo boundaries the double is exact.
CurrentTimeError(fr, c) ==
  IF c.fps = 50 /\ c.photoDuration = 4020 /\ fr = 201 THEN -1 ELSE 0

\* currentTime = (frame / fps) * 1000, kept as currentTime * fps
CurrentTime(fr, c) == fr * 1000 + CurrentTimeError(fr, c)

\* variant: the scheduler stops one frame early
LastFrameReached_OneEarly(fr, tf) == (fr + 1) * 1000 >= tf

\* frame >= totalFrames
LastFrameReached(fr, tf) == fr * 1000 >= tf

\* variant: progress computed after the frame counter was incremented
ProgressValue_AfterIncrement(fr, tf) ==
  (2 * ((fr + 1) * 1000 * 100) + tf) \div (2 * tf)

\* variant: progress truncated instead of rounded
ProgressValue_Floor(fr, tf) == (fr * 1000 * 100) \div tf

\* Math.round((frame / totalFrames) * 100): round half up
ProgressValue(fr, tf) == (2 * (fr * 1000 * 100) + tf) \div (2 * tf)

\* floor(currentTime / photoDuration) with currentTime = frame / fps * 1000
PhotoIndex(fr, c) == CurrentTime(fr, c) \div (c.photoDuration * c.fps)

\* variant: photoProgress taken from the whole clock, without the modulo
PhotoProgress_NoModulo(fr, c) == fr * 1000

\* (currentTime % photoDuration) / photoDuration, as a numerator over
\* photoDuration * fps
PhotoProgress(fr, c) == CurrentTime(fr, c) % (c.photoDuration * c.fps)

\* fadeInEnd = transitionDuration / photoDuration, over the same denominator
FadeInEnd(c) == c.transitionDuration * c.fps

\* variant: the fade-in ramp applied without testing photoProgress < fadeInEnd
Alpha_Unclamped(fr, c) ==
  IF FadeInEnd(c) > 0 THEN <<PhotoProgress(fr, c), FadeInEnd(c)>> ELSE <<1, 1>>

\* the fade of lines 127-135 as a fraction <<numerator, denominator>>
Alpha(fr, c) ==
  LET P == PhotoProgress(fr, c)
      D == c.photoDuration * c.fps
      T == FadeInEnd(c)
  IN  IF P < T THEN <<P, T>>
      ELSE IF P > D - T THEN <<D - P, T>>
      ELSE <<1, 1>>

\* what lines 110-140 draw for frame fr with n loaded images
DrawFrame(fr, c, n) ==
  [frame |-> fr,
   photoIndex |-> PhotoIndex(fr, c),
   photo |-> PhotoIndex(fr, c) < n,
   alpha |-> IF PhotoIndex(fr, c) < n THEN Alpha(fr, c) ELSE <<1, 1>>]

\* variant: the recorder is started as soon as it is constructed
NewRecorder_Started == "recording"

\* state of a MediaRecorder after `new MediaRecorder(...)`, before start()
NewRecorder == "inactive"

\* variant: a handler that does not test the guard
GuardPending_Unchecked == TRUE

\* the `if (!isCompleted)` test of the three completion handlers
GuardPending == ~isCompleted

\* variant: renderFrame without its early return
AlreadyCompleted_Ignored == FALSE

\* the `if (isCompleted) return` test at the head of renderFrame
AlreadyCompleted == isCompleted

\* variant: cleanup that leaves the images alone
ReleaseImages_Skipped(im) == im

\* cleanup(): images.forEach(img => img.src = '')
ReleaseImages(im) == [i \in DOMAIN im |-> "released"]

\* variant: cleanup that leaves the timer running
ClearTimeout_Skipped(t) == t

\* cleanup(): if (timeoutId) clearTimeout(timeoutId)
ClearTimeout(t) == IF t = "armed" THEN "cleared" ELSE t

\* variant: no overall timeout is installed
InstallTimer_Missing == "none"

\* timeoutId = setTimeout(..., timeout)
InstallTimer == "armed"

\* MediaRecorder.stop(): state after the call
StopState(rec) == IF rec = "recording" THEN "inactive" ELSE rec

\* variant: a stop() that queues its events whatever the state
StopEvents_Always(rec, q) == q \o <<"data", "stop">>

\* MediaRecorder.stop(): events queued by the call
StopEvents(rec, q) == IF rec = "recording" THEN q \o <<"data", "stop">> ELSE q

\* variant: a barrier that opens as soon as one load has resolved
AllLoaded_Any(im) == \E i \in DOMAIN im : im[i] = "loaded"

\* Promise.all resolves only when every load has resolved
AllLoaded(im) == \A i \in DOMAIN im : im[i] = "loaded"

\* variant: a barrier that fails only when every load failed
BarrierFailed_OnlyAll(im) == im # <<>> /\ \A i \in DOMAIN im : im[i] = "failed"

\* Promise.all rejects as soon as one load has rejected
BarrierFailed(im) == \E i \in DOMAIN im : im[i] = "failed"

\* variant: a catch block that forgets frame++
FrameAfter_CatchKeeps(fr, r) == IF r = "ok" THEN fr + 1 ELSE fr

\* frame++ at the end of the try block (r = "ok") and in the catch block
FrameAfter(fr, r) == fr + 1

\* resolve/reject of a promise: only the first call settles it
Settled(o, new) == IF o = "pending" THEN new ELSE o

\* variant: the timeout rejects with the error of a recording failure
TimeoutError_AsRecording == "EncoderError"

\* new Error(`Video generation timeout exceeded (${timeout}ms)`)
TimeoutError == "TimedOut"

\* new Error('Video recording failed: ' + ...)
RecordingError == "EncoderError"

\* new Error('No photos available for video generation')
NoPhotosError == "NoInputError"

\* the error event of the image, passed to reject by img.onerror
ImageError == "LoadError"

\* variant: results stored in the order the loads complete
LoaderSlot_Arrival(i, vals) ==
  1 + Cardinality({ k \in DOMAIN vals : vals[k] # 0 })

\* Promise.all stores the result of its i-th promise at index i
LoaderSlot(i, vals) == i

\* variant: every chunk is pushed, empty or not
KeepChunk_Always(size) == TRUE

\* if (e.data.size > 0) chunks.push(e.data)
KeepChunk(size) == size > 0

\* variant: the file name built without the fallback
Filename_NoFallback(job) == job \o "_marketing.webm"

\* `${jobInfo.job_number || 'video'}_marketing.webm`
Filename(job) == (IF job = "" THEN "video" ELSE job) \o "_marketing.webm"

\* variant: the guard declared at module scope, so that both invocations
\* read and write the same variable
OtherSessionAfter_SharedGuard(p, g, f) == [p EXCEPT !.isCompleted = g]

\* variant: the frame counter declared at module scope
OtherSessionAfter_SharedFrame(p, g, f) == [p EXCEPT !.frame = f]

\* isCompleted (line 57) and frame (line 98) are declared inside the call:
\* a handler that leaves them at g and f does not reach the variables p of
\* the other invocation
OtherSessionAfter(p, g, f) == p

\* variant: a catch block that does not schedule the next tick
TimeoutsSet_CatchNone(r) == IF r = "ok" THEN 1 ELSE 0

\* setTimeout(renderFrame, interval), once at the end of the try block and
\* once in the catch block: calls made by a frame with result r
TimeoutsSet(r) == 1

\* variant: no error handler is set on the recorder
CompletionHandlers_NoError == {"stop"}

\* mediaRecorder.onstop = ..., mediaRecorder.onerror = ...
CompletionHandlers == {"stop", "error"}

\* the variables of an invocation that has not been called
IdleSession(e, in, c, hp) ==
  [entry |-> e, input |-> in, cfg |-> c, hasProgress |-> hp,
   pc |-> "idle", photos |-> <<>>, canvas |-> FALSE, recorder |-> "none",
   encQueue |-> <<>>, chunks |-> <<>>, img |-> <<>>, totalFrames |-> 0,
   timer |-> "none", isCompleted |-> FALSE, frame |-> 0,
   tickPending |-> FALSE, drawn |-> <<>>, progress |-> <<>>, threw |-> {},
   outcome |-> "pending", settles |-> 0, cleanups |-> 0, stopCalls |-> 0,
   downloads |-> 0, images |-> <<>>, globalAlpha |-> <<1, 1>>,
   emitted |-> <<>>, blob |-> <<>>, jobNumber |-> "unread",
   filename |-> "none", wrapped |-> "pending", timeouts |-> 0, ticks |-> 0,
   handlers |-> {}]

\* the variables of this invocation, as they are kept for the other one
ThisSession ==
  [entry |-> entry, input |-> input, cfg |-> cfg, hasProgress |-> hasProgress,
   pc |-> pc, photos |-> photos, canvas |-> canvas, recorder |-> recorder,
   encQueue |-> encQueue, chunks |-> chunks, img |-> img,
   totalFrames |-> totalFrames, timer |-> timer, isCompleted |-> isCompleted,
   frame |-> frame, tickPending |-> tickPending, drawn |-> drawn,
   progress |-> progress, threw |-> threw, outcome |-> outcome,
   settles |-> settles, cleanups |-> cleanups, stopCalls |-> stopCalls,
   downloads |-> downloads, images |-> images, globalAlpha |-> globalAlpha,
   emitted |-> emitted, blob |-> blob, jobNumber |-> jobNumber,
   filename |-> filename, wrapped |-> wrapped, timeouts |-> timeouts,
   ticks |-> ticks, handlers |-> handlers]

\* ---------------------------------------------------------------- init
\* nothing has been called yet
Fresh ==
  /\ pc = "idle"
  /\ photos = <<>>
  /\ canvas = FALSE
  /\ recorder = "none"
  /\ encQueue = <<>>
  /\ chunks = <<>>
  /\ img = <<>>
  /\ totalFrames = 0
  /\ timer = "none"
  /\ isCompleted = FALSE
  /\ frame = 0
  /\ tickPending = FALSE
  /\ drawn = <<>>
  /\ progress = <<>>
  /\ threw = {}
  /\ outcome = "pending"
  /\ settles = 0
  /\ cleanups = 0
  /\ stopCalls = 0
  /\ downloads = 0
  /\ images = <<>>
  /\ globalAlpha = <<1, 1>>
  /\ emitted = <<>>
  /\ blob = <<>>
  /\ jobNumber = "unread"
  /\ filename = "none"
  /\ wrapped = "pending"
  /\ timeouts = 0
  /\ ticks = 0
  /\ handlers = {}
  /\ self = 1

\* no pure function has been applied
Unapplied ==
  /\ album = <<>>
  /\ selection = <<>>
  /\ box = NoBox
  /\ fit = NoFit
  /\ applied = "none"

Init ==
  /\ entry \in Entries
  /\ input \in SeqsUpTo(BOOLEAN, MaxPhotos)
  \* a photo without data handed directly to generateMarketingVideo is a
  \* load that may fail or succeed like any other; the flag only matters
  \* to the filter of generateAndDownloadVideo
  /\ (entry = "direct" => \A i \in DOMAIN input : input[i])
  /\ cfg \in Configs
  /\ hasProgress \in BOOLEAN
  /\ Fresh
  \* no second invocation is made
  /\ peer = IdleSession("direct", <<>>, cfg, FALSE)
  /\ Unapplied

\* a direct call with photos that all carry data and an onProgress callback
NormalInit ==
  /\ entry = "direct"
  /\ hasProgress = TRUE
  /\ \E x \in NormalInputs :
       /\ input = [i \in 1..x.n |-> TRUE]
       /\ cfg = x.cfg
  /\ Fresh
  /\ peer = IdleSession("direct", <<>>, cfg, FALSE)
  /\ Unapplied

\* two direct calls, each with one photo, at two frames per photo
DuoInit ==
  /\ entry = "direct"
  /\ input = <<TRUE>>
  /\ cfg = [fps |-> 2, photoDuration |-> 1000, transitionDuration |-> 0]
  /\ hasProgress = TRUE
  /\ Fresh
  /\ peer = IdleSession(entry, input, cfg, hasProgress)
  /\ Unapplied

\* ------------------------------------------------------------- actions
sessionVars == <<totalFrames, timer, isCompleted, frame, tickPending, drawn,
                 progress, threw, settles, cleanups, stopCalls, timeouts,
                 ticks>>

\* the inputs and results of the pure functions
pureVars == <<album, selection, box, fit, applied>>

\* the surface, the encoder's output and the wrapper's side of the call
outputVars == <<globalAlpha, emitted, blob, jobNumber, filename, self, peer,
                album, selection, box, fit, applied>>

\* generateMarketingVideo up to its await: canvas, recorder, all loads issued
EnterGenerator(list) ==
  /\ photos' = list
  /\ canvas' = TRUE
  /\ recorder' = NewRecorder
  /\ img' = [i \in 1..Len(list) |-> "loading"]
  /\ images' = [i \in 1..Len(list) |-> 0]
  /\ handlers' = {"dataavailable"}
  /\ pc' = "loading"
  /\ UNCHANGED <<outcome, wrapped>>

\* the caller invokes generateMarketingVideo(photos, jobInfo, options)
CallGenerate ==
  /\ pc = "idle"
  /\ entry = "direct"
  /\ EnterGenerator(input)
  /\ UNCHANGED <<entry, input, cfg, hasProgress, encQueue, chunks, downloads>>
  /\ UNCHANGED sessionVars
  /\ UNCHANGED outputVars

\* the caller invokes generateAndDownloadVideo(photos, jobInfo, onProgress)
CallGenerateAndDownload ==
  /\ pc = "idle"
  /\ entry = "wrapper"
  /\ IF Len(selectedPhotos(input)) = 0
     THEN \* thrown inside the try block: caught and rethrown at once
          /\ outcome' = NoPhotosError
          /\ wrapped' = NoPhotosError
          /\ pc' = "thrown"
          /\ UNCHANGED <<photos, canvas, recorder, img, images, handlers>>
     ELSE EnterGenerator(selectedPhotos(input))
  /\ UNCHANGED <<entry, input, cfg, hasProgress, encQueue, chunks, downloads>>
  /\ UNCHANGED sessionVars
  /\ UNCHANGED outputVars

\* img.onload of photo i
ImageLoaded(i) ==
  /\ pc \in {"loading", "thrown"}
  /\ i \in DOMAIN img
  /\ img[i] = "loading"
  /\ img' = [img EXCEPT ![i] = "loaded"]
  /\ images' = [images EXCEPT ![LoaderSlot(i, images)] = i]
  /\ UNCHANGED <<entry, input, cfg, hasProgress, pc, photos, canvas, recorder,
                 encQueue, chunks, outcome, downloads, wrapped, handlers>>
  /\ UNCHANGED sessionVars
  /\ UNCHANGED outputVars

\* img.onerror of photo i: rejects its promise, hence Promise.all, hence
\* the await of line 47 throws out of generateMarketingVideo
ImageFailed(i) ==
  /\ pc \in {"loading", "thrown"}
  /\ i \in DOMAIN img
  /\ img[i] = "loading"
  /\ img' = [img EXCEPT ![i] = "failed"]
  /\ IF BarrierFailed(img')
     THEN pc' = "thrown" /\ outcome' = Settled(outcome, ImageError)
     ELSE UNCHANGED <<pc, outcome>>
  /\ UNCHANGED <<entry, input, cfg, hasProgress, photos, canvas, recorder,
                 encQueue, chunks, downloads, images, wrapped, handlers>>
  /\ UNCHANGED sessionVars
  /\ UNCHANGED outputVars

\* one execution of renderFrame past its isCompleted test, with the frame
\* counter fr, the total tf and the recorder state rec / queue q
RenderBody(fr, tf, rec, q) ==
  \* images.length is Len(img): every image is loaded when this runs
  IF LastFrameReached(fr, tf)
  THEN /\ recorder' = StopState(rec)
       /\ encQueue' = StopEvents(rec, q)
       /\ stopCalls' = stopCalls + 1
       /\ frame' = fr
       /\ tickPending' = FALSE
       /\ UNCHANGED <<drawn, progress, threw, globalAlpha, timeouts>>
  ELSE /\ \E r \in FrameResults :
            /\ (r = "progressThrew" => hasProgress)
            \* drawImage is only called when photoIndex < images.length
            /\ (r = "photoThrew" => DrawFrame(fr, cfg, Len(img)).photo)
            /\ drawn' = IF r \in {"ok", "progressThrew"}
                        THEN Append(drawn, DrawFrame(fr, cfg, Len(img)))
                        ELSE drawn
            /\ progress' = IF r \in {"ok", "progressThrew"} /\ hasProgress
                           THEN Append(progress, ProgressValue(fr, tf))
                           ELSE progress
            /\ threw' = IF r = "ok" THEN threw ELSE threw \cup {fr}
            \* line 137 sets the alpha of the photo and line 139 puts it
            \* back to 1; a throw of line 138 skips line 139
            /\ globalAlpha' =
                 IF r = "drawThrew" \/ ~DrawFrame(fr, cfg, Len(img)).photo
                 THEN globalAlpha
                 ELSE IF r = "photoThrew" THEN DrawFrame(fr, cfg, Len(img)).alpha
                 ELSE <<1, 1>>
            /\ frame' = FrameAfter(fr, r)
            /\ timeouts' = timeouts + TimeoutsSet(r)
            /\ tickPending' = (TimeoutsSet(r) > 0)
       /\ recorder' = rec
       /\ encQueue' = q
       /\ UNCHANGED stopCalls

\* the continuation of `await Promise.all(...)`: lines 51-161, including the
\* first, synchronous call of renderFrame
ResumeAfterLoad ==
  /\ pc = "loading"
  /\ AllLoaded(img)
  /\ pc' = "running"
  /\ totalFrames' = TotalFramesOf(Len(img), cfg)
  /\ timer' = InstallTimer
  /\ isCompleted' = FALSE
  /\ handlers' = handlers \cup CompletionHandlers
  /\ RenderBody(0, TotalFramesOf(Len(img), cfg), "recording", encQueue)
  /\ UNCHANGED <<entry, input, cfg, hasProgress, photos, canvas, chunks, img,
                 outcome, settles, cleanups, downloads, images, emitted, blob,
                 jobNumber, filename, wrapped, ticks, self>>
  /\ UNCHANGED pureVars
  /\ peer' = OtherSessionAfter(peer, isCompleted', frame')

\* a setTimeout(renderFrame, interval) callback runs
RenderTick ==
  /\ pc = "running"
  /\ tickPending
  /\ IF AlreadyCompleted
     THEN /\ tickPending' = FALSE
          /\ UNCHANGED <<recorder, encQueue, stopCalls, frame, drawn, progress,
                         threw, globalAlpha, timeouts>>
     ELSE RenderBody(frame, totalFrames, recorder, encQueue)
  /\ ticks' = ticks + 1
  /\ UNCHANGED <<entry, input, cfg, hasProgress, pc, photos, canvas, chunks,
                 img, totalFrames, timer, isCompleted, outcome, settles,
                 cleanups, downloads, images, emitted, blob, jobNumber,
                 filename, wrapped, handlers, self>>
  /\ UNCHANGED pureVars
  /\ peer' = OtherSessionAfter(peer, isCompleted', frame')

\* the callback of the overall timeout, lines 68-75
TimeoutFires ==
  /\ timer = "armed"
  /\ IF GuardPending
     THEN /\ isCompleted' = TRUE
          /\ img' = ReleaseImages(img)
          /\ timer' = ClearTimeout("fired")
          /\ cleanups' = cleanups + 1
          /\ recorder' = StopState(recorder)
          /\ encQueue' = StopEvents(recorder, encQueue)
          /\ stopCalls' = stopCalls + 1
          /\ outcome' = Settled(outcome, TimeoutError)
          /\ settles' = settles + 1
     ELSE /\ timer' = "fired"
          /\ UNCHANGED <<isCompleted, img, cleanups, recorder, encQueue,
                         stopCalls, outcome, settles>>
  /\ UNCHANGED <<entry, input, cfg, hasProgress, pc, photos, canvas, chunks,
                 totalFrames, frame, tickPending, drawn, progress, threw,
                 downloads, images, globalAlpha, emitted, blob, jobNumber,
                 filename, wrapped, timeouts, ticks, handlers, self>>
  /\ UNCHANGED pureVars
  /\ peer' = OtherSessionAfter(peer, isCompleted', frame')

\* mediaRecorder.ondataavailable, lines 42-44; size 0 is an empty chunk
DataAvailable(size) ==
  /\ encQueue # <<>>
  /\ Head(encQueue) = "data"
  /\ encQueue' = Tail(encQueue)
  /\ emitted' = Append(emitted, size)
  /\ chunks' = IF KeepChunk(size) THEN Append(chunks, size) ELSE chunks
  /\ UNCHANGED <<entry, input, cfg, hasProgress, pc, photos, canvas, recorder,
                 img, outcome, downloads, images, globalAlpha, blob, jobNumber,
                 filename, wrapped, handlers, self, peer>>
  /\ UNCHANGED pureVars
  /\ UNCHANGED sessionVars

\* mediaRecorder.onstop, lines 77-84
RecorderStopped ==
  /\ encQueue # <<>>
  /\ Head(encQueue) = "stop"
  /\ encQueue' = Tail(encQueue)
  /\ IF "stop" \in handlers /\ GuardPending
     THEN /\ isCompleted' = TRUE
          /\ img' = ReleaseImages(img)
          /\ timer' = ClearTimeout(timer)
          /\ cleanups' = cleanups + 1
          /\ blob' = Append(blob, chunks)
          /\ outcome' = Settled(outcome, "blob")
          /\ settles' = settles + 1
     ELSE UNCHANGED <<isCompleted, img, timer, cleanups, blob, outcome, settles>>
  /\ UNCHANGED <<entry, input, cfg, hasProgress, pc, photos, canvas, recorder,
                 chunks, totalFrames, frame, tickPending, drawn, progress,
                 threw, stopCalls, downloads, images, globalAlpha, emitted,
                 jobNumber, filename, wrapped, timeouts, ticks, handlers, self>>
  /\ UNCHANGED pureVars
  /\ peer' = OtherSessionAfter(peer, isCompleted', frame')

\* the encoder fails while recording: mediaRecorder.onerror, lines 86-92;
\* the user agent then inactivates the recorder and queues data and stop
RecorderError ==
  /\ pc = "running"
  /\ recorder = "recording"
  /\ recorder' = "inactive"
  /\ encQueue' = encQueue \o <<"data", "stop">>
  /\ IF "error" \in handlers /\ GuardPending
     THEN /\ isCompleted' = TRUE
          /\ img' = ReleaseImages(img)
          /\ timer' = ClearTimeout(timer)
          /\ cleanups' = cleanups + 1
          /\ outcome' = Settled(outcome, RecordingError)
          /\ settles' = settles + 1
     ELSE UNCHANGED <<isCompleted, img, timer, cleanups, outcome, settles>>
  /\ UNCHANGED <<entry, input, cfg, hasProgress, pc, photos, canvas, chunks,
                 totalFrames, frame, tickPending, drawn, progress, threw,
                 stopCalls, downloads, images, globalAlpha, emitted, blob,
                 jobNumber, filename, wrapped, timeouts, ticks, handlers, self>>
  /\ UNCHANGED pureVars
  /\ peer' = OtherSessionAfter(peer, isCompleted', frame')

\* generateAndDownloadVideo after its await: lines 306-309
Download ==
  /\ entry = "wrapper"
  /\ outcome = "blob"
  /\ downloads = 0
  /\ downloads' = 1
  /\ \E job \in JobNumbers :
       /\ jobNumber' = job
       /\ filename' = Filename(job)
  /\ wrapped' = Settled(wrapped, "blob")
  /\ UNCHANGED <<entry, input, cfg, hasProgress, pc, photos, canvas, recorder,
                 encQueue, chunks, img, outcome, images, globalAlpha, emitted,
                 blob, handlers, self, peer>>
  /\ UNCHANGED sessionVars
  /\ UNCHANGED pureVars

\* the await of line 302 throws: the catch block of lines 310-313 logs the
\* error and throws it again
Rethrow ==
  /\ entry = "wrapper"
  /\ pc # "idle"
  /\ outcome \notin {"pending", "blob"}
  /\ wrapped = "pending"
  /\ wrapped' = Settled(wrapped, outcome)
  /\ UNCHANGED <<entry, input, cfg, hasProgress, pc, photos, canvas, recorder,
                 encQueue, chunks, img, outcome, downloads, images, handlers>>
  /\ UNCHANGED sessionVars
  /\ UNCHANGED outputVars

\* the event loop turns to the other invocation: its variables come to the
\* front and this invocation's are put aside
Switch ==
  /\ entry' = peer.entry
  /\ input' = peer.input
  /\ cfg' = peer.cfg
  /\ hasProgress' = peer.hasProgress
  /\ pc' = peer.pc
  /\ photos' = peer.photos
  /\ canvas' = peer.canvas
  /\ recorder' = peer.recorder
  /\ encQueue' = peer.encQueue
  /\ chunks' = peer.chunks
  /\ img' = peer.img
  /\ totalFrames' = peer.totalFrames
  /\ timer' = peer.timer
  /\ isCompleted' = peer.isCompleted
  /\ frame' = peer.frame
  /\ tickPending' = peer.tickPending
  /\ drawn' = peer.drawn
  /\ progress' = peer.progress
  /\ threw' = peer.threw
  /\ outcome' = peer.outcome
  /\ settles' = peer.settles
  /\ cleanups' = peer.cleanups
  /\ stopCalls' = peer.stopCalls
  /\ downloads' = peer.downloads
  /\ images' = peer.images
  /\ globalAlpha' = peer.globalAlpha
  /\ emitted' = peer.emitted
  /\ blob' = peer.blob
  /\ jobNumber' = peer.jobNumber
  /\ filename' = peer.filename
  /\ wrapped' = peer.wrapped
  /\ timeouts' = peer.timeouts
  /\ ticks' = peer.ticks
  /\ handlers' = peer.handlers
  /\ self' = 3 - self
  /\ peer' = ThisSession
  /\ UNCHANGED pureVars

\* lines 288-296 of generateAndDownloadVideo applied to the caller's array
SelectPhotos ==
  /\ applied = "none"
  /\ selection' = SelectedOf(album)
  /\ album' = AlbumAfterSort(album)
  /\ applied' = "select"
  /\ UNCHANGED <<box, fit>>
  /\ UNCHANGED <<entry, input, cfg, hasProgress, pc, photos, canvas, recorder,
                 encQueue, chunks, img, outcome, downloads, images, wrapped,
                 handlers, globalAlpha, emitted, blob, jobNumber, filename,
                 self, peer>>
  /\ UNCHANGED sessionVars

\* calculateFitDimensions applied to an image size and a box
Fit ==
  /\ applied = "none"
  /\ fit' = FitDimensions(box)
  /\ applied' = "fit"
  /\ UNCHANGED <<album, selection, box>>
  /\ UNCHANGED <<entry, input, cfg, hasProgress, pc, photos, canvas, recorder,
                 encQueue, chunks, img, outcome, downloads, images, wrapped,
                 handlers, globalAlpha, emitted, blob, jobNumber, filename,
                 self, peer>>
  /\ UNCHANGED sessionVars

Next ==
  \/ CallGenerate
  \/ CallGenerateAndDownload
  \/ \E i \in DOMAIN img : ImageLoaded(i)
  \/ \E i \in DOMAIN img : ImageFailed(i)
  \/ ResumeAfterLoad
  \/ RenderTick
  \/ TimeoutFires
  \/ \E size \in {0, 1} : DataAvailable(size)
  \/ RecorderStopped
  \/ RecorderError
  \/ Download
  \/ Rethrow

Spec == Init /\ [][Next]_vars

\* The fault-free runs: every image decodes, no frame throws, the encoder
\* does not fail, every chunk is non-empty and the timer does not fire
\* before the session completes.
NormalResume == ResumeAfterLoad /\ threw' = {}

NormalTick == RenderTick /\ threw' = {}

NormalNext ==
  \/ CallGenerate
  \/ \E i \in DOMAIN img : ImageLoaded(i)
  \/ NormalResume
  \/ NormalTick
  \/ DataAvailable(1)
  \/ RecorderStopped

NormalSpec == NormalInit /\ [][NormalNext]_vars

\* Two invocations of generateMarketingVideo in flight at once: every
\* step is an event of one of them, or the turn to the other.
DuoNext ==
  \/ CallGenerate
  \/ \E i \in DOMAIN img : ImageLoaded(i)
  \/ ResumeAfterLoad
  \/ RenderTick
  \/ TimeoutFires
  \/ DataAvailable(1)
  \/ RecorderStopped
  \/ RecorderError
  \/ Switch

DuoSpec == DuoInit /\ [][DuoNext]_vars

\* the event loop runs a timer callback that is due
FairSpec == Spec /\ WF_vars(TimeoutFires)

\* render ticks that are due run, and the user agent delivers the events
\* it queued for the recorder
RenderFairSpec ==
  /\ Spec
  /\ WF_vars(RenderTick)
  /\ WF_vars(\E size \in {0, 1} : DataAvailable(size))
  /\ WF_vars(RecorderStopped)

\* the photo selection alone, on every array of up to MaxAlbum photos
SelectInit ==
  /\ entry = "wrapper"
  /\ input = <<>>
  /\ cfg = DefaultConfig
  /\ hasProgress = FALSE
  /\ Fresh
  /\ peer = IdleSession("direct", <<>>, cfg, FALSE)
  /\ album \in SeqsUpTo(AlbumPhotos, MaxAlbum)
  /\ selection = <<>>
  /\ box = NoBox
  /\ fit = NoFit
  /\ applied = "none"

SelectNext == SelectPhotos

SelectSpec == SelectInit /\ [][SelectNext]_vars

\* the fit alone, on every image size and box up to MaxDim and on the
\* rounded boxes
FitInit ==
  /\ entry = "direct"
  /\ input = <<>>
  /\ cfg = DefaultConfig
  /\ hasProgress = FALSE
  /\ Fresh
  /\ peer = IdleSession("direct", <<>>, cfg, FALSE)
  /\ album = <<>>
  /\ selection = <<>>
  /\ box \in FitInputs
  /\ fit = NoFit
  /\ applied = "none"

FitNext == Fit

FitSpec == FitInit /\ [][FitNext]_vars

TypeOK ==
  /\ pc \in {"idle", "loading", "running", "thrown"}
  /\ recorder \in {"none", "inactive", "recording"}
  /\ timer \in {"none", "armed", "fired", "cleared"}
  /\ isCompleted \in BOOLEAN
  /\ frame \in Nat
  /\ outcome \in {"pending", "blob", "NoInputError", "LoadError", "TimedOut", "EncoderError"}
  /\ wrapped \in {"pending", "blob", "NoInputError", "LoadError", "TimedOut", "EncoderError"}
  /\ globalAlpha \in Nat \X Nat
  /\ self \in {1, 2}

\* ------------------------------------------------------------- claims
Released(im) == \A i \in DOMAIN im : im[i] = "released"

\* C1: single resolution.  resolve/reject is called at most once per
\* session, it is called in the very step that sets the guard, and once
\* the guard is set no later signal calls it again or unsets the guard.
C1_SingleResolution ==
  /\ [](settles <= 1 /\ (isCompleted <=> settles = 1))
  /\ [][isCompleted => (isCompleted' /\ settles' = settles)]_vars

\* the scheduler asked the encoder to stop, the timeout won, and the stop
\* event was then delivered to a guard that was already set
C1_Witness ==
  /\ outcome = "TimedOut"
  /\ stopCalls = 2
  /\ recorder = "inactive"
  /\ encQueue = <<>>
  /\ settles = 1

\* C2: terminal states are absorbing.  Once the guard is set the outcome
\* stays what it is, the frame counter does not move, no frame is drawn
\* and onProgress is not called, whatever fires afterwards.
C2_TerminalAbsorbing ==
  [][isCompleted => /\ isCompleted'
                    /\ outcome' = outcome
                    /\ frame' = frame
                    /\ drawn' = drawn
                    /\ progress' = progress]_vars

\* a tick that was scheduled before the terminal transition has fired
\* after it: no tick is pending although frames remain
C2_Witness ==
  /\ isCompleted
  /\ frame > 0
  /\ ~LastFrameReached(frame, totalFrames)
  /\ ~tickPending

\* C3: timeout outcome.  When the timer fires with the guard pending the
\* session is marked complete, stop() is called and the recorder is no
\* longer recording, every image is released and the promise is rejected
\* with TimedOut; a TimedOut outcome never turns into anything else.
C3_TimeoutOutcome ==
  /\ [][(timer = "armed" /\ timer' = "fired" /\ ~isCompleted) =>
          /\ isCompleted'
          /\ stopCalls' = stopCalls + 1
          /\ recorder' = "inactive"
          /\ Released(img')
          /\ outcome' = "TimedOut"]_vars
  /\ [][outcome = "TimedOut" => outcome' = "TimedOut"]_vars

\* the timer fired in the middle of the render and the stop event it
\* caused has been delivered
C3_Witness ==
  /\ outcome = "TimedOut"
  /\ frame > 0
  /\ ~LastFrameReached(frame, totalFrames)
  /\ stopCalls = 1
  /\ encQueue = <<>>

\* C4 (as claimed): the overall timer is armed while the images load.
C4_TimerArmedWhileLoading == pc = "loading" => timer = "armed"

\* C5: bounded runtime.  A session that has started rendering eventually
\* has its guard set and its promise settled.
C5_RenderingTerminates ==
  (pc = "running") ~> (isCompleted /\ outcome # "pending")

\* every frame rendered so far threw, the encoder has delivered neither
\* of the events queued by stop(), and the session is terminal
C5_Witness ==
  /\ isCompleted
  /\ outcome = "TimedOut"
  /\ frame > 0
  /\ threw = 0..(frame - 1)
  /\ Len(encQueue) = 2

\* C6: cleanup runs exactly once, in the step that sets the guard; after
\* it every image is released and the timer is not armed, and after a
\* success or an encoder error the timer has been cleared without firing.
C6_CleanupOnce ==
  /\ cleanups = (IF isCompleted THEN 1 ELSE 0)
  /\ isCompleted => (Released(img) /\ timer # "armed")
  /\ outcome \in {"blob", "EncoderError"} => timer = "cleared"

\* a session that completed through the stop event
C6_Witness ==
  /\ outcome = "blob"
  /\ cleanups = 1
  /\ timer = "cleared"
  /\ img # <<>>

\* C7 (as claimed): after any terminal outcome no loaded image is left
\* unreleased.
C7_ReleasedAfterAnyOutcome ==
  outcome # "pending" => \A i \in DOMAIN img : img[i] # "loaded"

\* C8: per-frame fault isolation.  A tick whose try block throws still
\* advances the frame counter by one and schedules the next tick, and
\* neither sets the guard nor settles the promise; and a rendering session
\* ends with the blob unless the timeout fired or the encoder failed.
C8_FrameFaultIsolation ==
  /\ [][threw' # threw => /\ frame' = frame + 1
                          /\ tickPending'
                          /\ ~isCompleted'
                          /\ settles' = settles
                          /\ outcome' = outcome]_vars
  /\ ((pc = "running") ~>
        (outcome = "blob" \/ timer = "fired" \/ outcome = "EncoderError"))

\* every frame of a session of at least two frames threw while drawing,
\* and the session completed with the blob
C8_Witness ==
  /\ outcome = "blob"
  /\ frame >= 2
  /\ drawn = <<>>
  /\ threw = 0..(frame - 1)

\* C9: loader all-or-nothing.  As soon as one image has failed the call
\* has thrown with the load error; it never gets past the await: no timer,
\* no recording, no frame drawn, no progress reported.
C9_LoaderAllOrNothing ==
  (\E i \in DOMAIN img : img[i] = "failed") =>
    /\ pc = "thrown"
    /\ outcome = "LoadError"
    /\ recorder = "inactive"
    /\ timer = "none"
    /\ frame = 0
    /\ drawn = <<>>
    /\ progress = <<>>

\* one image decoded, another failed
C9_Witness ==
  /\ outcome = "LoadError"
  /\ \E i \in DOMAIN img : img[i] = "loaded"
  /\ \E i \in DOMAIN img : img[i] = "failed"

\* C10 (as claimed): a call with an empty photo list fails with
\* NoInputError before a canvas or a recorder exists.
C10_EmptyInputRejected ==
  (input = <<>> /\ pc # "idle") =>
    (outcome = "NoInputError" /\ ~canvas /\ recorder = "none")

\* C11: no partial output.  The promise is resolved with the blob only
\* after the scheduler has found frame >= totalFrames and called stop();
\* no stop event resolves the session while frames remain.
C11_NoPartialOutput ==
  outcome = "blob" =>
    /\ pc = "running"
    /\ frame * 1000 >= totalFrames
    /\ stopCalls >= 1

\* a session with at least one frame that completed with the blob
C11_Witness ==
  /\ outcome = "blob"
  /\ frame > 0
  /\ Len(drawn) + Cardinality(threw) >= frame

\* C12 (as claimed): once the scheduler has reached frame >= totalFrames
\* and called stop() before the timer fired, the session can only end
\* with the blob.
C12_SchedulerStopWins ==
  [][(stopCalls >= 1 /\ frame > 0 /\ frame * 1000 >= totalFrames /\ timer = "armed")
       => outcome' \in {"pending", "blob"}]_vars

\* C12 (amended): the handler that runs first decides.  While the timer is
\* still armed a delivered stop event resolves with the blob, and a timer
\* that fires rejects with TimedOut, also after the scheduler called stop().
C12_FirstHandlerWins ==
  /\ [][(timer = "armed" /\ encQueue # <<>> /\ Head(encQueue) = "stop"
           /\ encQueue' = Tail(encQueue)) => outcome' = "blob"]_vars
  /\ [][(timer = "armed" /\ timer' = "fired") => outcome' = "TimedOut"]_vars
  /\ [](outcome = "blob" => timer = "cleared")
  /\ [](outcome = "TimedOut" => timer = "fired")

\* the scheduler rendered every frame and called stop(), and the timer
\* fired before the encoder delivered its stop event
C12_Witness ==
  /\ outcome = "TimedOut"
  /\ frame > 0
  /\ frame * 1000 >= totalFrames
  /\ Len(encQueue) = 2

\* Math.round(n * photoDuration / 1000 * fps), the count the claims name
RoundedFrames(n, c) == (2 * n * c.photoDuration * c.fps + 1000) \div 2000

\* C13 (as claimed): for one or more photos totalFrames is
\* round(N * photoDuration / 1000 * fps), and a session that ends with the
\* blob has ticked exactly that many frames.
C13_FrameCountLaw ==
  (pc = "running" /\ Len(img) >= 1) =>
    /\ totalFrames = 1000 * RoundedFrames(Len(img), cfg)
    /\ outcome = "blob" => frame = RoundedFrames(Len(img), cfg)

\* C14 (as claimed): 0 <= frame <= totalFrames in every state, and frame
\* never decreases.
C14_MonotonicBoundedClock ==
  /\ [](frame >= 0 /\ (pc = "running" => frame * 1000 <= totalFrames))
  /\ [][frame' >= frame]_vars

\* C15: alpha bounds.  Every frame that was drawn was drawn with
\* 0 <= alpha <= 1, for fades of 0 ms, shorter than half a photo, longer
\* than half a photo and longer than the photo.
C15_AlphaBounds ==
  \A i \in DOMAIN drawn :
    /\ drawn[i].alpha[2] > 0
    /\ 0 <= drawn[i].alpha[1]
    /\ drawn[i].alpha[1] <= drawn[i].alpha[2]

\* a frame drawn in the fade-out of a photo whose fade is longer than half
\* the photo, and one drawn with no fade at all is reachable likewise
C15_Witness ==
  /\ 2 * cfg.transitionDuration > cfg.photoDuration
  /\ cfg.transitionDuration < cfg.photoDuration
  /\ \E i \in DOMAIN drawn :
       /\ PhotoProgress(drawn[i].frame, cfg) >= FadeInEnd(cfg)
       /\ drawn[i].alpha[1] < drawn[i].alpha[2]

Min3(a, b, c) == IF a <= b /\ a <= c THEN a ELSE IF b <= c THEN b ELSE c

\* C16: alpha profile.  With the default options (30 fps, 2000 ms per
\* photo, 500 ms fade) the k-th frame of every photo, k = 0..59, is drawn
\* with alpha = min(1, k/15, (60-k)/15): 0 at k = 0, 1 from k = 15 to
\* k = 45, and falling to 1/15 at k = 59.
C16_AlphaProfile ==
  cfg = DefaultConfig =>
    \A i \in DOMAIN drawn :
      LET k == drawn[i].frame % 60
      IN  /\ drawn[i].photoIndex = drawn[i].frame \div 60
          /\ drawn[i].alpha[1] * 15 = drawn[i].alpha[2] * Min3(15, k, 60 - k)

\* the second photo has been drawn through its fade-in, plateau and
\* fade-out
C16_Witness ==
  /\ cfg = DefaultConfig
  /\ Len(drawn) = 120
  /\ drawn[120].photoIndex = 1

\* C17: scenario A.  Five photos with the default options give 300 frames;
\* in a run with no frame error the only onProgress call with the value
\* 100 is the one of frame 299 (the 300th call), and the run that ends
\* with the blob has made it.
C17_ScenarioA ==
  (cfg = DefaultConfig /\ Len(img) = 5 /\ pc = "running") =>
    /\ totalFrames = 300 * 1000
    /\ \A i \in DOMAIN progress : (progress[i] = 100 <=> i = 300)
    /\ outcome = "blob" => Len(progress) = 300

\* the five-photo session completed
C17_Witness ==
  /\ cfg = DefaultConfig
  /\ Len(img) = 5
  /\ outcome = "blob"
  /\ frame = 300
  /\ progress[300] = 100

\* C18 (as claimed): the encoder is started before the image loads run.
C18_EncoderStartedBeforeLoading ==
  pc = "loading" => recorder = "recording"

\* C18 (amended): the recorder is constructed before the loads are issued
\* but is not recording while they run; it starts recording in the step
\* that resumes after the barrier, with every image loaded, and no frame
\* is rendered and no tick scheduled before that step.
C18_StartOrder ==
  /\ [](pc = "idle" => recorder = "none")
  /\ [](pc = "loading" =>
          /\ canvas
          /\ recorder = "inactive"
          /\ frame = 0 /\ drawn = <<>> /\ threw = {} /\ ~tickPending)
  /\ [][recorder' = "recording" =>
          (recorder = "recording" \/
             (pc = "loading" /\ pc' = "running"
                /\ \A i \in DOMAIN img : img[i] = "loaded"))]_vars

\* every image has decoded and the recorder exists but does not record yet
C18_Witness ==
  /\ pc = "loading"
  /\ img # <<>>
  /\ \A i \in DOMAIN img : img[i] = "loaded"
  /\ recorder = "inactive"

\* C19: stop idempotence.  A stop() call that finds the recorder already
\* inactive (the timeout firing after the scheduler asked for the stop)
\* leaves the recorder inactive and queues no event, touches neither the
\* chunks nor the frame counter, and the promise is settled once, by the
\* timeout that made the call; the events of the first stop() still arrive
\* and settle nothing.
C19_StopIdempotent ==
  /\ [][(pc = "running" /\ stopCalls' = stopCalls + 1 /\ recorder = "inactive") =>
          /\ recorder' = "inactive"
          /\ encQueue' = encQueue
          /\ chunks' = chunks
          /\ frame' = frame
          /\ settles' = 1
          /\ outcome' = "TimedOut"]_vars
  /\ [](stopCalls = 2 => (settles = 1 /\ Len(encQueue) <= 2))

\* the second stop() has been made while both events of the first were
\* still queued, and they are still the only ones
C19_Witness ==
  /\ stopCalls = 2
  /\ encQueue = <<"data", "stop">>
  /\ settles = 1

\* C20: encoder error is fatal.  The error event of a recording session
\* sets the guard, rejects with EncoderError, releases every image and
\* clears the timer; afterwards the outcome stays EncoderError, the timer
\* stays cleared and no frame is drawn, also when the stop event that
\* follows the error is delivered.
C20_EncoderErrorFatal ==
  /\ [][(recorder = "recording" /\ recorder' = "inactive"
           /\ stopCalls' = stopCalls) =>
          /\ isCompleted'
          /\ outcome' = "EncoderError"
          /\ Released(img')
          /\ timer' = "cleared"]_vars
  /\ [][outcome = "EncoderError" =>
          /\ outcome' = "EncoderError"
          /\ timer' = "cleared"
          /\ Released(img')
          /\ drawn' = drawn
          /\ frame' = frame]_vars

\* the encoder failed in the middle of the render, the stop event that
\* followed has been delivered and the leftover tick has run
C20_Witness ==
  /\ outcome = "EncoderError"
  /\ frame > 0
  /\ frame * 1000 < totalFrames
  /\ encQueue = <<>>
  /\ ~tickPending

C22_LoaderResult ==
  /\ [](pc = "idle" => (img = <<>> /\ images = <<>>))
  /\ [](pc # "idle" => (Len(img) = Len(photos) /\ Len(images) = Len(photos)))
  /\ [][pc = "idle" /\ pc' = "loading" =>
          \A i \in 1..Len(photos') : img'[i] = "loading"]_vars
  /\ [](\A i \in DOMAIN images :
          /\ images[i] \in {0, i}
          /\ (images[i] = i <=> img[i] \in {"loaded", "released"}))
  /\ [](pc = "running" => images = [i \in 1..Len(photos) |-> i])

\* the render runs with two drawables, one per photo
C22_Witness ==
  /\ pc = "running"
  /\ Len(photos) = 2
  /\ images = <<1, 2>>
  /\ drawn # <<>>

\* C23: download side effect.  generateAndDownloadVideo calls downloadVideo
\* at most once, only from a session whose promise resolved with the blob,
\* and its own promise resolves only with that download made; the file is
\* named after the job number, or 'video' when the job number is empty;
\* after any failure no download is ever made and the wrapper's promise
\* rejects with the very error the session failed with.  A direct call of
\* generateMarketingVideo downloads nothing.
C23_DownloadSideEffect ==
  /\ [](downloads <= 1)
  /\ [](downloads = 0 <=> filename = "none")
  /\ [](downloads = 1 =>
          /\ entry = "wrapper"
          /\ outcome = "blob"
          /\ wrapped = "blob"
          /\ (jobNumber = "" => filename = "video_marketing.webm")
          /\ (jobNumber = "J-1024" => filename = "J-1024_marketing.webm"))
  /\ [](wrapped = "blob" => downloads = 1)
  /\ [](outcome \notin {"pending", "blob"} => downloads = 0)
  /\ [](wrapped \notin {"pending", "blob"} => wrapped = outcome)
  /\ [][wrapped # "pending" => wrapped' = wrapped /\ downloads' = downloads]_vars

\* a job without a number: the video was generated and saved under the
\* fallback name
C23_Witness ==
  /\ entry = "wrapper"
  /\ downloads = 1
  /\ jobNumber = ""
  /\ filename = "video_marketing.webm"
  /\ frame > 0

\* C24: session independence.  With two invocations in flight, a step of
\* one of them changes no variable of the other; in particular the step
\* that sets one session's guard (timeout, encoder error or completion,
\* with its cleanup) leaves the other's guard, frame counter, drawables,
\* chunk list, timer and outcome as they were.
C24_SessionIndependence ==
  /\ [][self' = self => peer' = peer]_vars
  /\ [][(self' = self /\ ~isCompleted /\ isCompleted') =>
          /\ peer'.isCompleted = peer.isCompleted
          /\ peer'.frame = peer.frame
          /\ peer'.img = peer.img
          /\ peer'.images = peer.images
          /\ peer'.chunks = peer.chunks
          /\ peer'.timer = peer.timer
          /\ peer'.outcome = peer.outcome]_vars

\* one session timed out in the middle of its render while the other was
\* rendering; the other has since run to its last frame and resolved
C24_Witness ==
  /\ outcome = "TimedOut"
  /\ frame = 1
  /\ Released(img)
  /\ peer.outcome = "blob"
  /\ peer.frame = 2
  /\ peer.timer = "cleared"

C26_LoadBarrier ==
  /\ [][(drawn' # drawn \/ progress' # progress \/ frame' # frame
           \/ threw' # threw) =>
          \A i \in DOMAIN img : img[i] = "loaded"]_vars
  /\ []((drawn # <<>> \/ progress # <<>> \/ frame > 0 \/ threw # {}
           \/ tickPending) =>
          (pc = "running"
             /\ \A i \in DOMAIN img : img[i] \in {"loaded", "released"}))

\* two photos, both loaded, and the first frame drawn and reported
C26_Witness ==
  /\ Len(img) = 2
  /\ \A i \in DOMAIN img : img[i] = "loaded"
  /\ Len(drawn) = 1
  /\ Len(progress) = 1

\* C27: compositor statelessness.  Whenever an invocation of renderFrame is
\* about to start (a tick is scheduled and the guard is not set), the blend
\* alpha of the surface is 1: nothing a previous invocation set is still in
\* effect, also when the photo draw of that invocation threw.
C27_NoAlphaCarriedOver ==
  (pc = "running" /\ tickPending /\ ~isCompleted) => globalAlpha = <<1, 1>>

NonEmptyChunk(size) == size > 0

\* C28: video output assembly.  `new Blob` is called at most once, in the
\* step that delivers the stop event to a guard not yet set, which is the
\* step that resolves the promise; the blob holds exactly the non-empty
\* chunks the encoder delivered, in their order of arrival, and no chunk
\* arrives after it is built; a session that ended with TimedOut or
\* EncoderError built none.
C28_OutputAssembly ==
  /\ [](Len(blob) <= 1)
  /\ [](outcome = "blob" <=> Len(blob) = 1)
  /\ [](outcome \in {"TimedOut", "EncoderError"} => blob = <<>>)
  /\ [](chunks = SelectSeq(emitted, NonEmptyChunk))
  /\ [](Len(blob) = 1 => blob[1] = SelectSeq(emitted, NonEmptyChunk))
  /\ [][blob' # blob =>
          /\ encQueue # <<>> /\ Head(encQueue) = "stop"
          /\ outcome = "pending" /\ outcome' = "blob"
          /\ blob' = <<SelectSeq(emitted, NonEmptyChunk)>>]_vars
  /\ [][Len(blob) = 1 => (emitted' = emitted /\ blob' = blob)]_vars

\* a render that ran to its last frame: the encoder delivered one chunk
\* with data and the blob was built from it
C28_Witness ==
  /\ outcome = "blob"
  /\ frame > 0
  /\ emitted = <<1>>
  /\ blob = << <<1>> >>

\* C29: progress reaches 100.  With the default options, a run that
\* resolved with the blob and in which no frame threw has passed 100 to
\* onProgress.
C29_ProgressReaches100 ==
  (cfg = DefaultConfig /\ hasProgress /\ outcome = "blob" /\ threw = {}) =>
    \E i \in DOMAIN progress : progress[i] = 100

\* C30: progress values.  Every value passed to onProgress is an integer
\* from 0 to 100 and no smaller than the value before it; a step calls
\* onProgress at most once, for the frame it drew, and advances the frame
\* counter; a frame whose draw threw is counted without a call, so the
\* calls are as many as the frames drawn and the frames that threw without
\* being drawn make up the rest of the frame counter.
C30_ProgressValues ==
  /\ [](\A i \in DOMAIN progress : progress[i] \in 0..100)
  /\ [](\A i \in DOMAIN progress : \A j \in DOMAIN progress :
          i <= j => progress[i] <= progress[j])
  /\ [](hasProgress => Len(progress) = Len(drawn))
  /\ [](~hasProgress => progress = <<>>)
  /\ [](\A i \in DOMAIN drawn : \A j \in DOMAIN drawn :
          i < j => drawn[i].frame < drawn[j].frame)
  /\ [](Len(drawn)
          + Cardinality({ f \in threw : \A i \in DOMAIN drawn : drawn[i].frame # f })
          = frame)
  /\ [][progress' # progress =>
          /\ Len(progress') = Len(progress) + 1
          /\ SubSeq(progress', 1, Len(progress)) = progress
          /\ frame' = frame + 1
          /\ Len(drawn') = Len(drawn) + 1
          /\ drawn'[Len(drawn')].frame = frame]_vars

\* three ticks of a two-photo render at 1.5 frames per photo: the draw of
\* the second frame threw, the first and third frames were reported
C30_Witness ==
  /\ hasProgress
  /\ frame = 3
  /\ threw = {1}
  /\ Len(drawn) = 2
  /\ progress = <<0, 67>>

\* C31: photo index range.  Every frame that was drawn had
\* 0 <= photoIndex < photoCount, so that its photo was drawn, and the
\* photoIndex of a frame is no smaller than that of the frame drawn before.
C31_PhotoIndexRange ==
  /\ \A i \in DOMAIN drawn :
       /\ 0 <= drawn[i].photoIndex
       /\ drawn[i].photoIndex < Len(img)
       /\ drawn[i].photo
  /\ \A i \in DOMAIN drawn : \A j \in DOMAIN drawn :
       i <= j => drawn[i].photoIndex <= drawn[j].photoIndex

\* C32: equal screen time in input order.  When photoDuration * fps / 1000
\* is a positive integer F, every frame drawn below N * F shows the photo
\* frame \div F, and a run that resolved with the blob has drawn exactly F
\* frames of each of its N photos.
C32_EqualScreenTime ==
  LET D == cfg.photoDuration * cfg.fps
      F == D \div 1000
  IN  (D % 1000 = 0 /\ F > 0) =>
        /\ \A i \in DOMAIN drawn :
             drawn[i].frame < Len(img) * F =>
               (drawn[i].photo /\ drawn[i].photoIndex = drawn[i].frame \div F)
        /\ outcome = "blob" =>
             \A k \in 0..(Len(img) - 1) :
               Cardinality({ i \in DOMAIN drawn :
                               drawn[i].photo /\ drawn[i].photoIndex = k }) = F

\* C33: one tick, one step.  Every run of renderFrame that finds the guard
\* pending and frames remaining, the first synchronous one included, moves
\* the frame counter up by exactly one and calls setTimeout exactly once,
\* whatever the frame did (drawn, draw threw, overlay threw, onProgress
\* threw); so the timeouts set are never more than one ahead of the ticks
\* run, a tick is pending exactly when they are one ahead, and the frames
\* composited have strictly increasing indices.
C33_OneTickOneStep ==
  /\ [][((ticks' = ticks + 1 \/ (pc = "loading" /\ pc' = "running"))
          /\ ~isCompleted'
          /\ frame * 1000 < totalFrames')
        => (/\ frame' = frame + 1
            /\ timeouts' = timeouts + 1
            /\ tickPending')]_vars
  /\ [](/\ timeouts - ticks \in {0, 1}
        /\ tickPending <=> (timeouts - ticks = 1)
        /\ \A i \in DOMAIN drawn : \A j \in DOMAIN drawn :
             i < j => drawn[i].frame < drawn[j].frame)

\* three frames have run, two of them from a timeout, one threw and one was
\* composited, and the third timeout is pending
C33_Witness ==
  /\ frame = 3
  /\ ticks = 2
  /\ timeouts = 3
  /\ tickPending
  /\ threw # {}
  /\ drawn # <<>>
  /\ ~isCompleted

\* C34: no lost signal.  Whenever the encoder is recording, has been asked
\* to stop, has events queued, or a frame has run, the stop handler, the
\* error handler and the timeout timer have been installed; a stop event
\* is only ever delivered, and an encoder error only ever occurs, while the
\* handler for it is set; and handlers are never taken off again.
C34_NoLostSignal ==
  /\ []((\/ recorder = "recording"
         \/ stopCalls > 0
         \/ encQueue # <<>>
         \/ frame > 0
         \/ drawn # <<>>
         \/ threw # {})
        => ({"stop", "error"} \subseteq handlers /\ timer # "none"))
  /\ [][/\ (encQueue # <<>> /\ encQueue' = Tail(encQueue)
              /\ Head(encQueue) = "stop") => "stop" \in handlers
        /\ (recorder = "recording" /\ recorder' = "inactive"
              /\ stopCalls' = stopCalls) => "error" \in handlers
        /\ timer' = "fired" /\ timer # "fired" => timer = "armed"
        /\ handlers \subseteq handlers']_vars

\* an encoder error occurred after frames were composited and found its
\* handler: the promise rejected with the recording error
C34_Witness ==
  /\ outcome = "EncoderError"
  /\ "error" \in handlers
  /\ "stop" \in handlers
  /\ drawn # <<>>
  /\ timer = "cleared"

\* number of positions of list that hold photo p
Occurrences(list, p) == Cardinality({ i \in DOMAIN list : list[i] = p })

\* rank of a category in the order the claim names
CategoryRank(c) ==
  CASE c = "before_car" -> 1
    [] c = "before_wheel" -> 2
    [] c = "during" -> 3
    [] c = "after_wheel" -> 4
    [] c = "after_car" -> 5

\* C35: photo selection.  The list computed from the caller's array holds
\* each photo that carries image or thumbnail data as often as the array
\* does and no photo without data; it is ordered by category rank and, in
\* one category, by ascending sequence; and the call leaves the caller's
\* array as it was.
C35_PhotoSelection ==
  /\ [](applied = "select" =>
          /\ \A p \in AlbumPhotos :
               Occurrences(selection, p) =
                 IF p.data = "none" THEN 0 ELSE Occurrences(album, p)
          /\ \A i \in DOMAIN selection : \A j \in DOMAIN selection :
               i < j =>
                 \/ CategoryRank(selection[i].category) < CategoryRank(selection[j].category)
                 \/ /\ selection[i].category = selection[j].category
                    /\ selection[i].sequence <= selection[j].sequence)
  /\ [][applied' = "select" => album' = album]_vars

\* an array that holds an after_car photo ahead of a before_car photo, both
\* with data, has been selected from: the list has them the other way
\* round and the array is as it was
C35_Witness ==
  /\ applied = "select"
  /\ Len(album) = 2
  /\ album[1].category = "after_car"
  /\ album[1].data = "image"
  /\ album[2].category = "before_car"
  /\ album[2].data = "thumbnail"
  /\ selection = <<album[2], album[1]>>

\* a returned number v is at most the whole number c: its exact value is
\* below c, or equals c and rounding did not add to it
AtMost(v, c) == v.q[1] < c * v.q[2] \/ (v.q[1] = c * v.q[2] /\ v.r <= 0)

\* a returned number v is the whole number c
Exactly(v, c) == v.q[1] = c * v.q[2] /\ v.r = 0

====
